---- MODULE Spec2Model ----
(***************************************************************************)
(* State-machine model of chip8_core (src/chip8_core/src/lib.rs): the      *)
(* Emu struct and its operations new, reset, tick, fetch, execute and      *)
(* tick_timers.  Arrays are functions over 0..N-1 as in the source.        *)
(* A Rust panic (index out of bounds, arithmetic overflow in a debug       *)
(* build, unimplemented!) ends the call sequence: status becomes "panic",  *)
(* the fields keep whatever the call had written before the panic, and no  *)
(* further operation is applied.  The operations are called by a driving   *)
(* loop outside the crate; calls_left is the number of calls it still      *)
(* makes, -1 for a loop that never stops.                                  *)
(***************************************************************************)
EXTENDS Integers, Sequences, FiniteSets, TLC

\* ---------------------------------------------------------------- constants
SCREEN_WIDTH == 64
SCREEN_HEIGHT == 32
RAM_SIZE == 4096
NUM_REGISTERS == 16
STACK_SIZE == 16
NUM_KEYS == 16
START_ADDRESS == 512
FONTSET_SIZE == 80
U16 == 65536

FONTSET ==
  << 240, 144, 144, 144, 240,
     32, 96, 32, 32, 112,
     240, 16, 240, 128, 240,
     240, 16, 240, 16, 240,
     144, 144, 240, 16, 16,
     240, 128, 240, 16, 240,
     240, 128, 240, 144, 240,
     240, 16, 32, 64, 64,
     240, 144, 240, 144, 240,
     240, 144, 240, 16, 240,
     240, 144, 240, 144, 144,
     224, 144, 224, 144, 224,
     240, 128, 128, 128, 240,
     224, 144, 144, 144, 224,
     240, 128, 240, 128, 240,
     240, 128, 240, 128, 128 >>

\* ------------------------------------------------------------------- bounds
\* execute(1nnn) is driven with the targets 0, 2, .., 2*HeadLen (the start of
\* the font table), START_ADDRESS and the last TailLen+1 addresses of the
\* 12-bit range.
HeadLen == 1
TailLen == 1
\* The Emu values that the runs of SpecAny start from: MaxDirty patterns of
\* non-zero framebuffer, registers, stack slots and keys, timers up to
\* MaxTimer, stack pointers up to MaxSp; MaxCalls operations are applied.
MaxDirty == 1
MaxTimer == 1
MaxSp == 1
MaxCalls == 1

\* -------------------------------------------------------------------- state
VARIABLES pc, ram, screen, v_reg, i_reg, sp, stack, keys, dt, st,
          call, arg, ret, status, calls_left

emu == <<pc, ram, screen, v_reg, i_reg, sp, stack, keys, dt, st>>
vars == <<pc, ram, screen, v_reg, i_reg, sp, stack, keys, dt, st,
          call, arg, ret, status, calls_left>>

\* The two build profiles: arithmetic overflow panics under "debug" and
\* wraps under "release".
Builds == {"debug", "release"}

\* One more instruction-stepping or reset call by the driving loop: the
\* previous call returned, and the loop has such calls left.  The 60 Hz
\* timer tick is not counted: it goes on for as long as the loop runs.
Called ==
  /\ status = "ok"
  /\ calls_left # 0
  /\ calls_left' = IF calls_left > 0 THEN calls_left - 1 ELSE calls_left

\* ------------------------------------------------------------------ new()
ZeroRam == [a \in 0..(RAM_SIZE - 1) |-> 0]

\* the font is copied one address too high
CopyFont_Shifted(r) == [a \in 0..(RAM_SIZE - 1) |->
                  IF a >= 1 /\ a <= FONTSET_SIZE THEN FONTSET[a] ELSE r[a]]

\* the font copy stops one byte short
CopyFont_OneShort(r) == [a \in 0..(RAM_SIZE - 1) |->
                  IF a < FONTSET_SIZE - 1 THEN FONTSET[a + 1] ELSE r[a]]

CopyFont(r) == [a \in 0..(RAM_SIZE - 1) |->
                  IF a < FONTSET_SIZE THEN FONTSET[a + 1] ELSE r[a]]

ClearScreen == [p \in 0..(SCREEN_WIDTH * SCREEN_HEIGHT - 1) |-> FALSE]

New == [pc     |-> START_ADDRESS,
        ram    |-> CopyFont(ZeroRam),
        screen |-> ClearScreen,
        v_reg  |-> [r \in 0..(NUM_REGISTERS - 1) |-> 0],
        i_reg  |-> 0,
        sp     |-> 0,
        stack  |-> [s \in 0..(STACK_SIZE - 1) |-> 0],
        keys   |-> [k \in 0..(NUM_KEYS - 1) |-> FALSE],
        dt     |-> 0,
        st     |-> 0]

Init ==
  /\ pc = New.pc
  /\ ram = New.ram
  /\ screen = New.screen
  /\ v_reg = New.v_reg
  /\ i_reg = New.i_reg
  /\ sp = New.sp
  /\ stack = New.stack
  /\ keys = New.keys
  /\ dt = New.dt
  /\ st = New.st
  /\ call = "new"
  /\ arg = 0
  /\ ret = 0
  /\ status = "ok"
  /\ calls_left = -1

\* ----------------------------------------------------------------- reset()
\* reset without the font copy of line 89
ResetRam_NoFont == [a \in 0..(RAM_SIZE - 1) |-> 0]

ResetRam == CopyFont([a \in 0..(RAM_SIZE - 1) |-> 0])

Reset ==
  /\ Called
  /\ pc' = START_ADDRESS
  /\ ram' = ResetRam
  /\ screen' = [p \in 0..(SCREEN_WIDTH * SCREEN_HEIGHT - 1) |-> FALSE]
  /\ v_reg' = [r \in 0..(NUM_REGISTERS - 1) |-> 0]
  /\ i_reg' = 0
  /\ sp' = 0
  /\ stack' = [s \in 0..(STACK_SIZE - 1) |-> 0]
  /\ keys' = [k \in 0..(NUM_KEYS - 1) |-> FALSE]
  /\ dt' = 0
  /\ st' = 0
  /\ call' = "reset"
  /\ arg' = 0
  /\ ret' = 0
  /\ status' = "ok"

\* ----------------------------------------------------------------- fetch()
\* (higher_byte << 8) | lower_byte on u16 values holding one byte each.
\* the two bytes combined in the other order
Combine_LittleEndian(higher_byte, lower_byte) ==
  ((lower_byte * 256) % U16) + higher_byte

Combine(higher_byte, lower_byte) == ((higher_byte * 256) % U16) + lower_byte

\* Outcome of fetch from program counter p: the opcode, the new pc and
\* whether the call panicked.  Line 101 indexes ram[pc]; line 102 computes
\* pc + 1 in u16 and indexes ram with it; line 104 adds 2 to pc in u16.
FetchAt(p, b) ==
  IF p >= RAM_SIZE
    THEN [op |-> 0, pc |-> p, status |-> "panic"]
  ELSE IF p + 1 >= U16 /\ b = "debug"
    THEN [op |-> 0, pc |-> p, status |-> "panic"]
  ELSE IF (p + 1) % U16 >= RAM_SIZE
    THEN [op |-> 0, pc |-> p, status |-> "panic"]
  ELSE IF p + 2 >= U16 /\ b = "debug"
    THEN [op |-> 0, pc |-> p, status |-> "panic"]
  ELSE [op |-> Combine(ram[p], ram[(p + 1) % U16]),
        pc |-> (p + 2) % U16, status |-> "ok"]

Fetch ==
  /\ Called
  /\ \E f \in {FetchAt(pc, b) : b \in Builds} :
       /\ pc' = f.pc
       /\ ret' = f.op
       /\ status' = f.status
  /\ call' = "fetch"
  /\ arg' = 0
  /\ UNCHANGED <<ram, screen, v_reg, i_reg, sp, stack, keys, dt, st>>

\* ------------------------------------------------------------------ tick()
\* tick fetches and discards the opcode.
Tick ==
  /\ Called
  /\ \E f \in {FetchAt(pc, b) : b \in Builds} :
       /\ pc' = f.pc
       /\ status' = f.status
  /\ ret' = 0
  /\ call' = "tick"
  /\ arg' = 0
  /\ UNCHANGED <<ram, screen, v_reg, i_reg, sp, stack, keys, dt, st>>

\* --------------------------------------------------------------- execute()
digit1(op) == (op \div 4096) % 16
digit2(op) == (op \div 256) % 16
digit3(op) == (op \div 16) % 16
digit4(op) == op % 16

\* op & 0xFF
nnn_Byte(op) == op % 256

\* op & 0xFFF
nnn(op) == op % 4096

\* pop() with stack pointer s under build b: line 74 subtracts 1 in u16,
\* line 75 indexes the stack with the result.
Pop(s, b) ==
  IF s = 0 /\ b = "debug"
    THEN [val |-> 0, sp |-> s, status |-> "panic"]
  ELSE LET s1 == (s - 1 + U16) % U16 IN
    IF s1 >= STACK_SIZE
      THEN [val |-> 0, sp |-> s1, status |-> "panic"]
      ELSE [val |-> stack[s1], sp |-> s1, status |-> "ok"]

\* the CLS pattern ignores the last nibble, so 00EE selects it too
Decode_WideCls(op) ==
  IF digit1(op) = 0 /\ digit2(op) = 0 /\ digit3(op) = 0 /\ digit4(op) = 0
    THEN "NOP"
  ELSE IF digit1(op) = 0 /\ digit2(op) = 0 /\ digit3(op) = 14
    THEN "CLS"
  ELSE IF digit1(op) = 1
    THEN "JMP"
  ELSE "unimplemented"

\* The arm of the match that an opcode selects.
Decode(op) ==
  IF digit1(op) = 0 /\ digit2(op) = 0 /\ digit3(op) = 0 /\ digit4(op) = 0
    THEN "NOP"
  ELSE IF digit1(op) = 0 /\ digit2(op) = 0 /\ digit3(op) = 14 /\ digit4(op) = 0
    THEN "CLS"
  ELSE IF digit1(op) = 0 /\ digit2(op) = 0 /\ digit3(op) = 14 /\ digit4(op) = 14
    THEN "RET"
  ELSE IF digit1(op) = 1
    THEN "JMP"
  ELSE "unimplemented"

\* The opcodes execute is driven with.
JumpTargets ==
  {2 * n : n \in 0..HeadLen} \cup {START_ADDRESS}
    \cup ((4095 - TailLen)..4095)

\* 0x00E1, 0x2200 (CALL in the CHIP-8 table), 0xFFFF
UnknownOps == {225, 8704, 65535}

Ops == {0, 224, 238} \cup {4096 + n : n \in JumpTargets} \cup UnknownOps

\* the arm steps over the opcode once more
ExecNOP_Skip ==
  /\ status' = "ok"
  /\ pc' = (pc + 2) % U16
  /\ UNCHANGED <<ram, screen, v_reg, i_reg, sp, stack, keys, dt, st>>

ExecNOP ==
  /\ status' = "ok"
  /\ UNCHANGED emu

\* the arm leaves the framebuffer as it is
ClsScreen_Keep == screen

\* [false; SCREEN_WIDTH * SCREEN_HEIGHT] of line 118
ClsScreen == [p \in 0..(SCREEN_WIDTH * SCREEN_HEIGHT - 1) |-> FALSE]

ExecCLS ==
  /\ screen' = ClsScreen
  /\ status' = "ok"
  /\ UNCHANGED <<pc, ram, v_reg, i_reg, sp, stack, keys, dt, st>>

ExecRET ==
  /\ \E r \in {Pop(sp, b) : b \in Builds} :
       /\ sp' = r.sp
       /\ pc' = IF r.status = "ok" THEN r.val ELSE pc
       /\ status' = r.status
  /\ UNCHANGED <<ram, screen, v_reg, i_reg, stack, keys, dt, st>>

ExecJMP(op) ==
  /\ pc' = nnn(op)
  /\ status' = "ok"
  /\ UNCHANGED <<ram, screen, v_reg, i_reg, sp, stack, keys, dt, st>>

ExecUnimplemented ==
  /\ status' = "panic"
  /\ UNCHANGED emu

Execute ==
  /\ Called
  /\ \E op \in Ops :
       /\ arg' = op
       /\ CASE Decode(op) = "NOP" -> ExecNOP
            [] Decode(op) = "CLS" -> ExecCLS
            [] Decode(op) = "RET" -> ExecRET
            [] Decode(op) = "JMP" -> ExecJMP(op)
            [] OTHER -> ExecUnimplemented
  /\ call' = "execute"
  /\ ret' = 0

\* ----------------------------------------------------------- tick_timers()
\* a timer that never runs down
Dec_Stuck(t) == t

\* the decrement without the test for zero, wrapping in u8
Dec_Wrap(t) == (t - 1 + 256) % 256

\* if t > 0 { t -= 1 } of lines 135-137 and 139-146
Dec(t) == IF t > 0 THEN t - 1 ELSE t

\* the timer tick also steps the program counter, as tick() does
TickTimers_StepsPc ==
  /\ status = "ok"
  /\ UNCHANGED calls_left
  /\ dt' = Dec(dt)
  /\ st' = Dec(st)
  /\ pc' = (pc + 2) % U16
  /\ call' = "tick_timers"
  /\ arg' = 0
  /\ ret' = 0
  /\ status' = "ok"
  /\ UNCHANGED <<ram, screen, v_reg, i_reg, sp, stack, keys>>

TickTimers ==
  /\ status = "ok"
  /\ UNCHANGED calls_left
  /\ dt' = Dec(dt)
  /\ st' = Dec(st)
  /\ call' = "tick_timers"
  /\ arg' = 0
  /\ ret' = 0
  /\ status' = "ok"
  /\ UNCHANGED <<pc, ram, screen, v_reg, i_reg, sp, stack, keys>>

\* ------------------------------------------------------------ specification
Next == Reset \/ Fetch \/ Tick \/ Execute \/ TickTimers

Spec == Init /\ [][Next]_vars

\* ------------------------------------------------------------------ push()
\* push is private and no operation above calls it; it is the callee that
\* the 2nnn arm of the opcode table needs, and code inside the crate can
\* call it on any Emu.

\* the stack pointer is advanced before the slot is written
PushAt_PreInc(s, val) ==
  IF s + 1 >= STACK_SIZE
    THEN [stack |-> stack, sp |-> s, status |-> "panic"]
    ELSE [stack |-> [stack EXCEPT ![s + 1] = val], sp |-> s + 1,
          status |-> "ok"]

\* push(val) with stack pointer s: line 69 indexes the stack with s, line 70
\* adds 1 to it (s < STACK_SIZE there, so the u16 addition cannot overflow).
PushAt(s, val) ==
  IF s >= STACK_SIZE
    THEN [stack |-> stack, sp |-> s, status |-> "panic"]
    ELSE [stack |-> [stack EXCEPT ![s] = val], sp |-> s + 1,
          status |-> "ok"]

\* The return addresses push is driven with.
PushVals == {0, 514, 65535}

Push ==
  /\ Called
  /\ \E val \in PushVals :
       /\ arg' = val
       /\ stack' = PushAt(sp, val).stack
       /\ sp' = PushAt(sp, val).sp
       /\ status' = PushAt(sp, val).status
  /\ call' = "push"
  /\ ret' = 0
  /\ UNCHANGED <<pc, ram, screen, v_reg, i_reg, keys, dt, st>>

\* ------------------------------------------------- runs from any Emu value
\* Emu values of the struct's type, for the operations as functions of the
\* whole struct: any program counter, timers and stack pointer within the
\* bounds, and with pattern k > 0 lit pixels, loaded registers, stale stack
\* slots and pressed keys.  Pattern 0 with pc = START_ADDRESS and zero
\* timers and stack pointer is new().  A run of SpecAny is either a run of
\* Spec, or MaxCalls calls, and any number of timer ticks, on one of these
\* values.
AnyScreen(k) ==
  [x \in 0..(SCREEN_WIDTH * SCREEN_HEIGHT - 1) |-> k > 0 /\ x % k = 0]

AnyVReg(k) == [r \in 0..(NUM_REGISTERS - 1) |-> (k * (17 * r + 1)) % 256]

AnyStack(k) == [i \in 0..(STACK_SIZE - 1) |-> (k * (514 + 2 * i)) % U16]

AnyKeys(k) == [i \in 0..(NUM_KEYS - 1) |-> k > 0 /\ i % (k + 1) = 0]

AnyEmu ==
  /\ pc \in JumpTargets
  /\ ram = New.ram
  /\ \E k \in 0..MaxDirty :
       /\ screen = AnyScreen(k)
       /\ v_reg = AnyVReg(k)
       /\ i_reg = (k * 291) % 4096
       /\ stack = AnyStack(k)
       /\ keys = AnyKeys(k)
  /\ sp \in 0..MaxSp
  /\ dt \in 0..MaxTimer
  /\ st \in 0..MaxTimer
  /\ call = "new"
  /\ arg = 0
  /\ ret = 0
  /\ status = "ok"
  /\ calls_left = MaxCalls

InitAny == Init \/ AnyEmu

SpecAny == InitAny /\ [][Next]_vars

\* ------------------------------------------------------- timers running
\* The driving loop calls tick_timers at 60 Hz for as long as it runs, so a
\* tick_timers call that is possible is eventually made.  The runs start
\* from the sampled Emu values, timers 0..MaxTimer, and interleave the
\* ticks with MaxCalls calls of the other operations.
SpecFair == AnyEmu /\ [][Next]_vars /\ WF_vars(TickTimers)

\* ------------------------------------------------- the call stack in use
\* push and the operations above, called MaxCalls + 1 times (a push and the
\* calls after it) on Emu values of every stack depth 0..STACK_SIZE.
InitPush ==
  /\ pc = START_ADDRESS
  /\ ram = New.ram
  /\ \E k \in 0..MaxDirty :
       /\ screen = AnyScreen(k)
       /\ v_reg = AnyVReg(k)
       /\ i_reg = (k * 291) % 4096
       /\ stack = AnyStack(k)
       /\ keys = AnyKeys(k)
  /\ sp \in 0..STACK_SIZE
  /\ dt = 0
  /\ st = 0
  /\ call = "new"
  /\ arg = 0
  /\ ret = 0
  /\ status = "ok"
  /\ calls_left = MaxCalls + 1

NextPush == Next \/ Push

SpecPush == InitPush /\ [][NextPush]_vars

\* ================================================================== claims
\* the framebuffer with each of the 64*32 pixels off
NoPixelLit == [p \in 0..(64 * 32 - 1) |-> FALSE]

AllPixelsOff(scr) == scr = NoPixelLit

PowerOn ==
  /\ pc = 512
  /\ \A a \in 0..79 : ram[a] = FONTSET[a + 1]
  /\ \A a \in 80..4095 : ram[a] = 0
  /\ DOMAIN ram = 0..4095
  /\ \A r \in 0..15 : v_reg[r] = 0
  /\ i_reg = 0
  /\ sp = 0
  /\ \A s \in 0..15 : stack[s] = 0
  /\ DOMAIN screen = 0..(64 * 32 - 1)
  /\ AllPixelsOff(screen)
  /\ \A k \in 0..15 : keys[k] = FALSE
  /\ dt = 0
  /\ st = 0

\* C1: immediately after new() the state is the power-on state: pc = 0x200,
\* memory 0x000..0x04F holds the font table, every other byte is 0, and the
\* V registers, index register, stack pointer, stack slots, framebuffer,
\* keys and both timers are zero/false.
C1_NewIsPowerOn == call = "new" => PowerOn

C1_Witness == call = "new" /\ status = "ok" /\ pc = 512 /\ ram[79] = 128

\* C2: from any state, reset() yields a state equal field for field to the
\* one new() produces (so a second reset changes nothing).
C2_ResetIsNew ==
  [][call' = "reset" =>
       /\ pc' = New.pc /\ ram' = New.ram /\ screen' = New.screen
       /\ v_reg' = New.v_reg /\ i_reg' = New.i_reg /\ sp' = New.sp
       /\ stack' = New.stack /\ keys' = New.keys
       /\ dt' = New.dt /\ st' = New.st
       /\ status' = "ok"]_vars

C2_Witness ==
  /\ call = "reset" /\ status = "ok" /\ pc = 512 /\ ram[0] = 240
  /\ AllPixelsOff(screen) /\ sp = 0 /\ dt = 0

\* C3: for every pc <= 0xFFE, fetch() returns memory[pc] * 256 +
\* memory[pc + 1] and leaves pc two higher.
C3_FetchBigEndian ==
  [][(call' = "fetch" /\ pc <= 4094) =>
       /\ status' = "ok"
       /\ ret' = ram[pc] * 256 + ram[pc + 1]
       /\ pc' = pc + 2]_vars

\* a fetch at pc = 0 returned 0xF090, the first two font bytes
C3_Witness == call = "fetch" /\ status = "ok" /\ ret = 61584 /\ pc = 2

\* C4: a fetch or tick called with pc > 0xFFE ends in a reported,
\* recoverable out-of-bounds outcome, not in a crash.
C4_FetchOutOfBoundsReported ==
  [][(call' \in {"fetch", "tick"} /\ pc > 4094) => status' # "panic"]_vars

\* C5: in every reachable state 0 <= pc <= 4094.
C5_PcInRange == pc \in 0..4094

\* C6: in every reachable state 0 <= sp <= 16.
C6_SpInRange == sp \in 0..16

\* C7: executing 00EE with an empty call stack is a reported, recoverable
\* StackUnderflow: sp does not wrap below 0 and the interpreter does not
\* crash.
C7_UnderflowReported ==
  [][(call' = "execute" /\ arg' = 238 /\ sp = 0) =>
       (status' # "panic" /\ sp' = 0)]_vars

\* C8: executing an opcode outside the table handled by execute is a
\* reported UnknownOpcode outcome and does not terminate the interpreter:
\* a further operation can be applied afterwards.
C8_UnknownOpcodeReported ==
  (call = "execute" /\ Decode(arg) = "unimplemented") =>
     (status # "panic" /\ ENABLED Reset)

\* C9: executing 00E0 turns every framebuffer pixel off whatever the
\* framebuffer held, and changes nothing else.
C9_ClsClearsOnlyScreen ==
  [][(call' = "execute" /\ arg' = 224) =>
       /\ AllPixelsOff(screen')
       /\ status' = "ok"
       /\ UNCHANGED <<pc, ram, v_reg, i_reg, sp, stack, keys, dt, st>>]_vars

\* 00E0 was executed on an Emu whose registers and keys are non-zero and
\* whose framebuffer had every pixel lit
C9_Witness ==
  /\ call = "execute" /\ arg = 224 /\ status = "ok"
  /\ AllPixelsOff(screen) /\ keys[0] /\ v_reg[1] = 18

\* C10: for every nnn in 0x000..0xFFF, executing 1nnn sets pc to nnn and
\* leaves memory, V registers, index register, stack, stack pointer,
\* framebuffer, keys and timers unchanged.
C10_JmpSetsOnlyPc ==
  [][(call' = "execute" /\ arg' \in 4096..8191) =>
       /\ pc' = arg' - 4096
       /\ status' = "ok"
       /\ UNCHANGED <<ram, screen, v_reg, i_reg, sp, stack, keys, dt, st>>]_vars

\* 1FFF was executed on an Emu whose framebuffer, registers, stack pointer
\* and delay timer are non-zero
C10_Witness ==
  /\ call = "execute" /\ arg = 8191 /\ status = "ok" /\ pc = 4095
  /\ screen[0] /\ i_reg = 291 /\ sp = 1 /\ dt = 1 /\ st = 0

C12_TickIsFetchThenExecute ==
  [][(call' = "tick" /\ pc <= 4094) =>
       LET op == ram[pc] * 256 + ram[pc + 1] IN
         /\ UNCHANGED <<ram, v_reg, i_reg, stack, keys, dt, st>>
         /\ CASE op = 0 ->
                   pc' = pc + 2 /\ UNCHANGED <<screen, sp>>
              [] op = 224 ->
                   pc' = pc + 2 /\ screen' = NoPixelLit /\ UNCHANGED sp
              [] op = 238 /\ sp \in 1..16 ->
                   pc' = stack[sp - 1] /\ sp' = sp - 1 /\ UNCHANGED screen
              [] op \in 4096..8191 ->
                   pc' = op - 4096 /\ UNCHANGED <<screen, sp>>
              [] OTHER ->
                   pc' = pc + 2 /\ UNCHANGED screen]_vars

\* C13: execute(0x0000) is a no-op: it leaves pc, memory, registers, index
\* register, stack, stack pointer, framebuffer, keys and timers unchanged
\* and reports no error.
C13_NopChangesNothing ==
  [][(call' = "execute" /\ arg' = 0) =>
       /\ status' = "ok"
       /\ UNCHANGED <<pc, ram, screen, v_reg, i_reg, sp, stack, keys,
                      dt, st>>]_vars

\* 0000 was executed on an Emu with lit pixels, a non-empty stack and
\* running timers
C13_Witness ==
  /\ call = "execute" /\ arg = 0 /\ status = "ok"
  /\ screen[0] /\ sp = 1 /\ dt = 1 /\ st = 1 /\ v_reg[1] = 18

\* C14: pushing a return address when the call stack holds 16 entries
\* (sp = 16) is a reported StackOverflow: no slot outside 0..15 is written,
\* no other state is corrupted, sp stays 16, and the call does not crash.
C14_OverflowReported ==
  [][(call' = "push" /\ sp = 16) =>
       /\ status' # "panic"
       /\ sp' = 16
       /\ DOMAIN stack' = 0..15
       /\ UNCHANGED <<pc, ram, screen, v_reg, i_reg, stack, keys,
                      dt, st>>]_vars

\* C15: fetch, tick, tick_timers and execute of any opcode other than 00E0
\* (and Dxyn) leave every framebuffer pixel unchanged.
C15_OnlyClsWritesScreen ==
  [][(\/ call' \in {"fetch", "tick", "tick_timers"}
      \/ (call' = "execute" /\ arg' # 224 /\ arg' \div 4096 # 13)) =>
       screen' = screen]_vars

\* 00EE returned on an Emu whose framebuffer has every pixel lit
C15_Witness ==
  /\ call = "execute" /\ arg = 238 /\ status = "ok" /\ sp = 0
  /\ screen[0] /\ screen[1] /\ screen[2047]

\* C16: in every reachable state memory bytes 0x000..0x04F equal the font
\* table, the 5-byte glyph of hex digit d at address 5 * d.
C16_FontResident ==
  \A d \in 0..15 : \A j \in 0..4 : ram[5 * d + j] = FONTSET[5 * d + j + 1]

\* the font is still in place after a jump into it and a fetch of its first
\* two bytes
C16_Witness ==
  /\ call = "fetch" /\ status = "ok" /\ pc = 2 /\ ret = 61584
  /\ ram[0] = 240 /\ ram[75] = 240 /\ ram[79] = 128

\* C17: for every stack depth sp < 16 and every address a, push(a) followed
\* by execute(0x00EE) sets pc to a and restores sp to its value before the
\* push; the push writes slot sp only and the return writes no slot, so the
\* slots below sp are unchanged (last pushed, first returned to).
C17_PushThenRet ==
  [][/\ (call' = "push" /\ sp < 16) =>
          /\ status' = "ok"
          /\ sp' = sp + 1
          /\ stack'[sp] = arg'
          /\ \A i \in 0..15 : i # sp => stack'[i] = stack[i]
     /\ (call = "push" /\ status = "ok" /\ call' = "execute" /\ arg' = 238) =>
          /\ status' = "ok"
          /\ pc' = arg
          /\ sp' = sp - 1
          /\ stack' = stack]_vars

\* 0xFFFF was pushed at depth 15 and 00EE returned to it
C17_Witness ==
  /\ call = "execute" /\ arg = 238 /\ status = "ok"
  /\ pc = 65535 /\ sp = 15 /\ stack[15] = 65535 /\ stack[14] = 542

\* C19: timers and instruction stepping are decoupled: tick_timers()
\* changes no field other than dt and st, and fetch, tick and execute never
\* change dt or st.
C19_TimersDecoupled ==
  [][/\ call' = "tick_timers" =>
          UNCHANGED <<pc, ram, screen, v_reg, i_reg, sp, stack, keys>>
     /\ call' \in {"fetch", "tick", "execute"} =>
          UNCHANGED <<dt, st>>]_vars

\* a fetch ran on an Emu whose sound timer is running and delay timer is not
C19_Witness ==
  /\ call = "fetch" /\ status = "ok" /\ dt = 0 /\ st = 1
  /\ pc = 4096 /\ keys[0]

====
